---- MODULE Spec2Model ----
(***************************************************************************)
(* Model of the BookIt front end's reservation workflow.                   *)
(*                                                                         *)
(* The administrator dashboard (src/src/pages/dashboards/AdminDashboard    *)
(* .jsx) keeps the reservation document in localStorage under the key      *)
(* 'classroomReservations' as three lists (pending, approved, denied) and  *)
(* the activity log under 'recentActivities'.  Every handler parses the    *)
(* document, changes it, writes it back whole and reloads the component    *)
(* state from it.  The user dashboard (src/src/services/auth.service.jsx)  *)
(* and the facility dashboard (src/unnamed/part_003) share the page with   *)
(* the availability search.                                                *)
(*                                                                         *)
(* A missing object field (JavaScript undefined) is the value Absent for   *)
(* strings and 0 for numbers; ids, dates, hours and clock values are > 0.  *)
(***************************************************************************)
EXTENDS Integers, Sequences, FiniteSets, TLC

\* ------------------------------------------------------------------ bounds
\* Number of reservations waiting in the pending list when the dashboard mounts.
MaxPending == 2
\* Number of mutating handler calls (review, create, confirm) in one run; the
\* run ends with the last of them.
MaxOps == 2
\* Number of times the millisecond clock advances in one run.
MaxTicks == 1
\* Number of activity records an earlier session left in the stored log.
MaxPrior == 2
\* Number of addRecentActivity calls in one run of the log alone.
MaxAppends == 55
MaxCalls == 4
MaxHops == 3
MaxDepth == 2

\* --------------------------------------------------------------- constants
Absent == "absent"
\* currentUser.id of the administrator; the requester who submitted the seeds.
AdminId == "admin"
RequesterId == "student"
\* Keeps the 50 newest activity records; the dashboard shows the first 5.
LogCap == 50
LogShown == 5
\* First clock value; the seeded reservations were created before the session.
StartClock == MaxPending + 1
MaxClock == StartClock + MaxTicks

VARIABLES
    store,                \* localStorage 'classroomReservations': pending, approved, denied
    activities,           \* localStorage 'recentActivities', newest first
    reservations,         \* component state: the lists loaded from the store
    recentActivities,     \* component state: the records shown
    selectedReservation,  \* component state: the reservation under review, NoReservation = null
    showReviewModal,
    showCreateModal,
    showConfirmModal,
    confirmAction,        \* "" = null, "delete", "bulk_approve"
    confirmData,          \* the data handed to onConfirm, NoData = null
    alertMessage,         \* the alert shown, NoAlert = ''
    now,                  \* the millisecond clock behind Date.now() and new Date()
    nOps,                 \* mutating handler calls made so far
    filterStatus,         \* user dashboard: the argument of the last displayAllClassrooms
    locationStatus,       \* user dashboard: the caption of the classroom list
    roomsState,           \* facility dashboard: operational status per room
    console,              \* console.error: the errors the handlers caught, oldest first
    authToken,            \* localStorage 'authToken'
    authHeader,           \* axios.defaults.headers.common['Authorization']
    currentUser,          \* AuthProvider state
    loading,              \* AuthProvider state: initializeAuth has not finished
    refreshTimeout,       \* window.refreshTimeout: the last timer id, 0 while undefined
    timers,               \* the refresh timers that are pending
    refreshing,           \* POST /auth/refresh in flight, by what the caller's closure saw
    loggingOut,           \* POST /auth/logout in flight
    profiling,            \* GET /auth/profile in flight
    verifying,            \* GET /auth/verify in flight: the token it carries
    loginReqs,            \* POST /auth/login in flight, oldest first
    errors,               \* Login page: field errors
    isLoading,            \* Login page: loading flag
    message,              \* Login page: message banner
    redirect,             \* Login page: the pending redirect timer, by role
    location,             \* the route the router shows
    nCalls,               \* requests and clicks so far
    isDevMode,            \* AuthService.isDevMode
    lastLogin,            \* the last call of AuthService.login and what it gave
    handlers,             \* interceptor: the error handlers that wait, outermost first
    wire,                 \* interceptor: the request the backend has yet to answer
    refreshCalls,         \* interceptor: refresh requests sent for the request in hand
    retries,              \* interceptor: retries sent for the request in hand
    logoutCalls,          \* interceptor: calls of logoutCallback for the request in hand
    outcome,              \* interceptor: what the caller of the request got
    currentStep,          \* ForgotPassword: 'request', 'verify', 'reset', 'success'
    resetToken,           \* ForgotPassword: the code in the input
    countdown,            \* ForgotPassword: seconds to the redirect
    requests,             \* ForgotPassword: its requests in flight, oldest first
    stepTimers            \* ForgotPassword: the delayed step changes that are pending

vars == << store, activities, reservations, recentActivities, selectedReservation,
           showReviewModal, showCreateModal, showConfirmModal, confirmAction,
           confirmData, alertMessage, now, nOps, filterStatus, locationStatus,
           roomsState, console, authToken, authHeader, currentUser, loading, refreshTimeout,
           timers, refreshing, loggingOut, profiling, verifying, loginReqs, errors,
           isLoading, message, redirect, location, nCalls, isDevMode, lastLogin,
           handlers, wire, refreshCalls, retries, logoutCalls, outcome,
           currentStep, resetToken, countdown, requests, stepTimers >>

adminVars == << store, activities, reservations, recentActivities, selectedReservation,
                showReviewModal, showCreateModal, showConfirmModal, confirmAction,
                confirmData, alertMessage, now, nOps >>

userVars == << filterStatus, locationStatus, roomsState >>

authVars == << authToken, authHeader, currentUser, loading, refreshTimeout, timers, refreshing,
               loggingOut, profiling, verifying, loginReqs, errors, isLoading, message,
               redirect, location, nCalls >>

interceptVars == << handlers, wire, refreshCalls, retries, logoutCalls, outcome >>

serviceVars == << isDevMode, lastLogin, interceptVars >>

forgotVars == << currentStep, resetToken, countdown, requests, stepTimers >>

\* What no dashboard handler touches unless something throws.
idleVars == << console, authVars, serviceVars, forgotVars >>

\* No request is on its way.
NoRequest == [ cfg |-> "", retry |-> FALSE ]

\* The interceptor with nothing in hand.
InterceptIdle ==
    /\ handlers = << >>
    /\ wire = NoRequest
    /\ refreshCalls = 0
    /\ retries = 0
    /\ logoutCalls = 0
    /\ outcome = ""

\* The ForgotPassword page as it mounts.
ForgotIdle ==
    /\ currentStep = "request"
    /\ resetToken = << >>
    /\ countdown = 0
    /\ requests = << >>
    /\ stepTimers = << >>

\* ------------------------------------------------------------ sequences
RECURSIVE Filter(_, _)
\* Array.prototype.filter(r => r.id !== id)
Filter(s, id) ==
    IF s = << >> THEN << >>
    ELSE IF Head(s).id # id THEN << Head(s) >> \o Filter(Tail(s), id)
         ELSE Filter(Tail(s), id)

Last(s) == s[Len(s)]

\* Array.prototype.slice(0, n)
Slice(s, n) == IF Len(s) <= n THEN s ELSE SubSeq(s, 1, n)

Ids(s) == { s[i].id : i \in 1..Len(s) }

Count(s, id) == Cardinality({ i \in 1..Len(s) : s[i].id = id })

\* ------------------------------------------------------------ records
NoReservation ==
    [ id |-> 0, classroom |-> Absent, date |-> 0, startTime |-> 0, endTime |-> 0,
      status |-> Absent, createdBy |-> Absent,
      reviewedBy |-> Absent, reviewedAt |-> 0, isAdminCreated |-> FALSE ]

NoData == [ id |-> 0, classroom |-> Absent, count |-> 0 ]

NoAlert == [ msg |-> "", status |-> "", count |-> 0 ]

Rooms == { "SST-CR1", "TYD-ASABA" }

\* A reservation a requester submitted before the session, waiting for review.
Seed(i) ==
    [ NoReservation EXCEPT !.id = i, !.classroom = "SST-CR1", !.date = 1,
                           !.startTime = 9, !.endTime = 10, !.status = "pending",
                           !.createdBy = RequesterId ]

SeedSeq(n) == [ i \in 1..n |-> Seed(i) ]

\* The stored document the dashboard finds when it mounts.
InitialDocs ==
    { [ pending |-> SeedSeq(n), approved |-> << >>, denied |-> << >> ] : n \in 0..MaxPending }

\* reservations.all: pending, approved and denied concatenated
AllOf(res) == res.pending \o res.approved \o res.denied

\* ------------------------------------------------------------ clock
\* A read of the clock: the time has not moved since the last read, or it has.
ClockReads == { t \in now..(now + 1) : t <= MaxClock }

\* ------------------------------------------------------------ activity log
\* addRecentActivity with push in the place of unshift.
LogAfter_Push(log, activity) == Slice(log \o << activity >>, LogCap)

\* addRecentActivity: unshift the record, store the first 50, show the first 5.
LogAfter(log, activity) == Slice(<< activity >> \o log, LogCap)

ShownAfter(log, activity) == Slice(<< activity >> \o log, LogShown)

Activity(action, reservationId, count) ==
    [ action |-> action, reservationId |-> reservationId, count |-> count, user |-> AdminId ]

\* ------------------------------------------------------------ loading
\* loadReservations: the component state becomes the stored document.
Loaded(doc) == doc

\* ------------------------------------------------------------ review
\* What the review form hands to handleReviewSubmit: an object whose status is
\* 'approved', 'denied' or anything else (the form's submit event has none).
ReviewInputs == { [ status |-> s ] : s \in { "approved", "denied", Absent } }

\* { ...selectedReservation, ...reviewData, reviewedBy, reviewedAt }
UpdatedReservation(sel, reviewData, t) ==
    [ sel EXCEPT !.status = IF reviewData.status # Absent THEN reviewData.status ELSE sel.status,
                 !.reviewedBy = AdminId,
                 !.reviewedAt = t ]

\* The document handleReviewSubmit writes back.
ReviewedDoc(doc, sel, reviewData, t) ==
    LET pending == Filter(doc.pending, sel.id)
        updated == UpdatedReservation(sel, reviewData, t)
    IN  [ pending  |-> pending,
          approved |-> IF reviewData.status = "approved"
                       THEN Append(doc.approved, updated) ELSE doc.approved,
          denied   |-> IF reviewData.status = "denied"
                       THEN Append(doc.denied, updated) ELSE doc.denied ]

\* onReview(res): a row of the displayed list (filter 'all') opens the review modal.
OnReview(r) ==
    /\ nOps < MaxOps
    /\ selectedReservation' = r
    /\ showReviewModal' = TRUE
    /\ UNCHANGED << store, activities, reservations, recentActivities, showCreateModal,
                    showConfirmModal, confirmAction, confirmData, alertMessage, now, nOps >>
    /\ UNCHANGED userVars
    /\ UNCHANGED idleVars

\* ReviewModal onClose
CloseReview ==
    /\ nOps < MaxOps
    /\ showReviewModal
    /\ showReviewModal' = FALSE
    /\ selectedReservation' = NoReservation
    /\ UNCHANGED << store, activities, reservations, recentActivities, showCreateModal,
                    showConfirmModal, confirmAction, confirmData, alertMessage, now, nOps >>
    /\ UNCHANGED userVars
    /\ UNCHANGED idleVars

handleReviewSubmit(reviewData, t) ==
    /\ showReviewModal
    /\ selectedReservation # NoReservation
    /\ nOps < MaxOps
    /\ LET doc == ReviewedDoc(store, selectedReservation, reviewData, t)
           activity == Activity(IF reviewData.status = "approved" THEN "approved" ELSE "denied",
                                selectedReservation.id, 0)
       IN  /\ store' = doc
           /\ activities' = LogAfter(activities, activity)
           /\ recentActivities' = ShownAfter(activities, activity)
           /\ reservations' = Loaded(doc)
    /\ showReviewModal' = FALSE
    /\ selectedReservation' = NoReservation
    /\ alertMessage' = [ msg |-> "reviewed", status |-> reviewData.status, count |-> 0 ]
    /\ now' = t
    /\ nOps' = nOps + 1
    /\ UNCHANGED << showCreateModal, showConfirmModal, confirmAction, confirmData >>
    /\ UNCHANGED userVars
    /\ UNCHANGED idleVars

\* ------------------------------------------------------------ create
\* What the create form hands to handleCreateSubmit.  A draft may lack fields
\* and may carry fields of its own (an id, a status).
Draft(id, classroom, date, startTime, endTime, status) ==
    [ id |-> id, classroom |-> classroom, date |-> date, startTime |-> startTime,
      endTime |-> endTime, status |-> status ]

Drafts ==
    { Draft(0, "SST-CR1", 1, 10, 11, Absent),      \* complete, adjacent to the seeds
      Draft(0, "SST-CR1", 1, 9, 10, "pending"),    \* overlaps the seeds, carries a status
      Draft(1, "TYD-ASABA", 1, 9, 10, Absent),     \* carries an id
      Draft(0, Absent, 0, 0, 0, Absent) }          \* no field at all

\* NewReservation with the draft spread after the status instead of before it:
\* { id: Date.now(), status: 'approved', ...reservationData, ... }
NewReservation_DraftLast(draft, tId) ==
    [ id             |-> IF draft.id # 0 THEN draft.id ELSE tId,
      classroom      |-> draft.classroom,
      date           |-> draft.date,
      startTime      |-> draft.startTime,
      endTime        |-> draft.endTime,
      status         |-> IF draft.status # Absent THEN draft.status ELSE "approved",
      createdBy      |-> AdminId,
      reviewedBy     |-> Absent,
      reviewedAt     |-> 0,
      isAdminCreated |-> TRUE ]

\* { id: Date.now(), ...reservationData, status: 'approved', createdBy, createdAt,
\*   isAdminCreated: true }; createdAt, which nothing reads, is left out.
NewReservation(draft, tId) ==
    [ id             |-> IF draft.id # 0 THEN draft.id ELSE tId,
      classroom      |-> draft.classroom,
      date           |-> draft.date,
      startTime      |-> draft.startTime,
      endTime        |-> draft.endTime,
      status         |-> "approved",
      createdBy      |-> AdminId,
      reviewedBy     |-> Absent,
      reviewedAt     |-> 0,
      isAdminCreated |-> TRUE ]

\* The document handleCreateSubmit writes back.
CreatedDoc(doc, new) == [ doc EXCEPT !.approved = Append(doc.approved, new) ]

OnCreate ==
    /\ nOps < MaxOps
    /\ showCreateModal' = TRUE
    /\ UNCHANGED << store, activities, reservations, recentActivities, selectedReservation,
                    showReviewModal, showConfirmModal, confirmAction, confirmData,
                    alertMessage, now, nOps >>
    /\ UNCHANGED userVars
    /\ UNCHANGED idleVars

CloseCreate ==
    /\ nOps < MaxOps
    /\ showCreateModal
    /\ showCreateModal' = FALSE
    /\ UNCHANGED << store, activities, reservations, recentActivities, selectedReservation,
                    showReviewModal, showConfirmModal, confirmAction, confirmData,
                    alertMessage, now, nOps >>
    /\ UNCHANGED userVars
    /\ UNCHANGED idleVars

handleCreateSubmit(draft, tId) ==
    /\ showCreateModal
    /\ nOps < MaxOps
    /\ LET new == NewReservation(draft, tId)
           doc == CreatedDoc(store, new)
           activity == Activity("created", new.id, 0)
       IN  /\ store' = doc
           /\ activities' = LogAfter(activities, activity)
           /\ recentActivities' = ShownAfter(activities, activity)
           /\ reservations' = Loaded(doc)
    /\ showCreateModal' = FALSE
    /\ alertMessage' = [ msg |-> "created", status |-> "", count |-> 0 ]
    /\ now' = tId
    /\ nOps' = nOps + 1
    /\ UNCHANGED << selectedReservation, showReviewModal, showConfirmModal,
                    confirmAction, confirmData >>
    /\ UNCHANGED userVars
    /\ UNCHANGED idleVars

\* ------------------------------------------------------------ confirm
\* stats.pending, the count of the displayed pending list
PendingShown == Len(reservations.pending)

\* onConfirm('delete', res): a row of the displayed list asks for its deletion.
OnConfirmDelete(r) ==
    /\ nOps < MaxOps
    /\ confirmAction' = "delete"
    /\ confirmData' = [ id |-> r.id, classroom |-> r.classroom, count |-> 0 ]
    /\ showConfirmModal' = TRUE
    /\ UNCHANGED << store, activities, reservations, recentActivities, selectedReservation,
                    showReviewModal, showCreateModal, alertMessage, now, nOps >>
    /\ UNCHANGED userVars
    /\ UNCHANGED idleVars

\* onConfirm('bulk_approve', { count }): the count is the one the list displays.
OnConfirmBulk ==
    /\ nOps < MaxOps
    /\ confirmAction' = "bulk_approve"
    /\ confirmData' = [ NoData EXCEPT !.count = PendingShown ]
    /\ showConfirmModal' = TRUE
    /\ UNCHANGED << store, activities, reservations, recentActivities, selectedReservation,
                    showReviewModal, showCreateModal, alertMessage, now, nOps >>
    /\ UNCHANGED userVars
    /\ UNCHANGED idleVars

\* ConfirmModal onClose
CloseConfirm ==
    /\ nOps < MaxOps
    /\ showConfirmModal
    /\ showConfirmModal' = FALSE
    /\ confirmAction' = ""
    /\ confirmData' = NoData
    /\ UNCHANGED << store, activities, reservations, recentActivities, selectedReservation,
                    showReviewModal, showCreateModal, alertMessage, now, nOps >>
    /\ UNCHANGED userVars
    /\ UNCHANGED idleVars

\* ['pending', 'approved', 'denied'].forEach(status => filter(r => r.id !== id))
DeletedDoc(doc, id) ==
    [ pending  |-> Filter(doc.pending, id),
      approved |-> Filter(doc.approved, id),
      denied   |-> Filter(doc.denied, id) ]

\* The clock values the map callback of bulk approve reads, one per pending
\* reservation: each read sees the time of the read before it, or a later one.
StampSeqs(n, t0) ==
    { ts \in [ 1..n -> t0..MaxClock ] :
        \A i \in 1..n : LET before == IF i = 1 THEN t0 ELSE ts[i - 1]
                        IN  ts[i] \in { before, before + 1 } }

\* pending.map(r => ({ ...r, status: 'approved', reviewedBy, reviewedAt: new Date() }))
BulkStamped(pending, ts) ==
    [ i \in 1..Len(pending) |->
        [ pending[i] EXCEPT !.status = "approved", !.reviewedBy = AdminId,
                            !.reviewedAt = ts[i] ] ]

\* approved.push(...stamped); pending = []
BulkApprovedDoc(doc, ts) ==
    [ pending  |-> << >>,
      approved |-> doc.approved \o BulkStamped(doc.pending, ts),
      denied   |-> doc.denied ]

handleConfirmDelete ==
    /\ showConfirmModal
    /\ confirmAction = "delete"
    /\ nOps < MaxOps
    /\ LET doc == DeletedDoc(store, confirmData.id)
           activity == Activity("deleted", confirmData.id, 0)
       IN  /\ store' = doc
           /\ activities' = LogAfter(activities, activity)
           /\ recentActivities' = ShownAfter(activities, activity)
           /\ reservations' = Loaded(doc)
    /\ alertMessage' = [ msg |-> "deleted", status |-> "", count |-> 0 ]
    /\ showConfirmModal' = FALSE
    /\ confirmAction' = ""
    /\ confirmData' = NoData
    /\ nOps' = nOps + 1
    /\ UNCHANGED << selectedReservation, showReviewModal, showCreateModal, now >>
    /\ UNCHANGED userVars
    /\ UNCHANGED idleVars

handleConfirmBulk(ts) ==
    /\ showConfirmModal
    /\ confirmAction = "bulk_approve"
    /\ nOps < MaxOps
    /\ LET doc == BulkApprovedDoc(store, ts)
           activity == Activity("bulk_approved", 0, confirmData.count)
       IN  /\ store' = doc
           /\ activities' = LogAfter(activities, activity)
           /\ recentActivities' = ShownAfter(activities, activity)
           /\ reservations' = Loaded(doc)
    /\ alertMessage' = [ msg |-> "bulk_approved", status |-> "", count |-> confirmData.count ]
    /\ showConfirmModal' = FALSE
    /\ confirmAction' = ""
    /\ confirmData' = NoData
    /\ now' = IF ts = << >> THEN now ELSE ts[Len(ts)]
    /\ nOps' = nOps + 1
    /\ UNCHANGED << selectedReservation, showReviewModal, showCreateModal >>
    /\ UNCHANGED userVars
    /\ UNCHANGED idleVars

\* The alert's timer (3 s) or its close button
ClearAlert ==
    /\ nOps < MaxOps
    /\ alertMessage # NoAlert
    /\ alertMessage' = NoAlert
    /\ UNCHANGED << store, activities, reservations, recentActivities, selectedReservation,
                    showReviewModal, showCreateModal, showConfirmModal, confirmAction,
                    confirmData, now, nOps >>
    /\ UNCHANGED userVars
    /\ UNCHANGED idleVars

\* ------------------------------------------------------------ storage that throws
\* What can throw inside a handler's try block: addRecentActivity (the stored
\* log cannot be parsed or written) or the write of the reservation document.
Throws == { "log", "save" }

ErrorAlert(msg) == [ msg |-> msg, status |-> "", count |-> 0 ]

\* The in-memory partitions with setReservations done ahead of the write.
KeptOnThrow_Optimistic(res, doc) == Loaded(doc)

\* The in-memory partitions after the catch: loadReservations was not reached.
KeptOnThrow(res, doc) == res

\* handleReviewSubmit when line 128 (the write) or line 131 (the log) throws.
handleReviewSubmitThrows(reviewData, t, f) ==
    /\ showReviewModal
    /\ selectedReservation # NoReservation
    /\ nOps < MaxOps
    /\ LET doc == ReviewedDoc(store, selectedReservation, reviewData, t)
       IN  /\ store' = IF f = "save" THEN store ELSE doc
           /\ reservations' = KeptOnThrow(reservations, doc)
    /\ alertMessage' = ErrorAlert("Error processing reservation review")
    /\ console' = Append(console, [ where |-> "review", error |-> f ])
    /\ now' = t
    /\ nOps' = nOps + 1
    /\ UNCHANGED << activities, recentActivities, selectedReservation, showReviewModal,
                    showCreateModal, showConfirmModal, confirmAction, confirmData >>
    /\ UNCHANGED userVars
    /\ UNCHANGED << authVars, serviceVars, forgotVars >>

\* handleCreateSubmit when line 169 (the write) or line 172 (the log) throws.
handleCreateSubmitThrows(draft, tId, f) ==
    /\ showCreateModal
    /\ nOps < MaxOps
    /\ LET doc == CreatedDoc(store, NewReservation(draft, tId))
       IN  /\ store' = IF f = "save" THEN store ELSE doc
           /\ reservations' = KeptOnThrow(reservations, doc)
    /\ alertMessage' = ErrorAlert("Error creating reservation")
    /\ console' = Append(console, [ where |-> "create", error |-> f ])
    /\ now' = tId
    /\ nOps' = nOps + 1
    /\ UNCHANGED << activities, recentActivities, selectedReservation, showReviewModal,
                    showCreateModal, showConfirmModal, confirmAction, confirmData >>
    /\ UNCHANGED userVars
    /\ UNCHANGED << authVars, serviceVars, forgotVars >>

\* handleConfirmAction, delete, when line 206 (the log) or line 234 (the write)
\* throws: the log comes first, and the write is the last thing tried.
handleConfirmDeleteThrows(f) ==
    /\ showConfirmModal
    /\ confirmAction = "delete"
    /\ nOps < MaxOps
    /\ LET doc == DeletedDoc(store, confirmData.id)
           activity == Activity("deleted", confirmData.id, 0)
       IN  /\ store' = store
           /\ activities' = IF f = "save" THEN LogAfter(activities, activity) ELSE activities
           /\ recentActivities' = IF f = "save" THEN ShownAfter(activities, activity)
                                  ELSE recentActivities
           /\ reservations' = KeptOnThrow(reservations, doc)
    /\ alertMessage' = ErrorAlert("Error performing action")
    /\ console' = Append(console, [ where |-> "delete", error |-> f ])
    /\ nOps' = nOps + 1
    /\ UNCHANGED << selectedReservation, showReviewModal, showCreateModal, showConfirmModal,
                    confirmAction, confirmData, now >>
    /\ UNCHANGED userVars
    /\ UNCHANGED << authVars, serviceVars, forgotVars >>

\* handleConfirmAction, bulk approve, when line 225 (the log) or line 234 (the
\* write) throws.
handleConfirmBulkThrows(ts, f) ==
    /\ showConfirmModal
    /\ confirmAction = "bulk_approve"
    /\ nOps < MaxOps
    /\ LET doc == BulkApprovedDoc(store, ts)
           activity == Activity("bulk_approved", 0, confirmData.count)
       IN  /\ store' = store
           /\ activities' = IF f = "save" THEN LogAfter(activities, activity) ELSE activities
           /\ recentActivities' = IF f = "save" THEN ShownAfter(activities, activity)
                                  ELSE recentActivities
           /\ reservations' = KeptOnThrow(reservations, doc)
    /\ alertMessage' = ErrorAlert("Error performing action")
    /\ console' = Append(console, [ where |-> "bulk_approve", error |-> f ])
    /\ now' = IF ts = << >> THEN now ELSE ts[Len(ts)]
    /\ nOps' = nOps + 1
    /\ UNCHANGED << selectedReservation, showReviewModal, showCreateModal, showConfirmModal,
                    confirmAction, confirmData >>
    /\ UNCHANGED userVars
    /\ UNCHANGED << authVars, serviceVars, forgotVars >>

\* ------------------------------------------------------------ user dashboard
NoQuery == [ date |-> 0, startTime |-> 0, endTime |-> 0, location |-> Absent ]

\* What the availability form submits: its four inputs, blank ones included.
Queries ==
    { [ date |-> d, startTime |-> s, endTime |-> e, location |-> l ] :
        d \in { 1 }, s \in { 0, 9, 10 }, e \in { 0, 10, 11 }, l \in { "ALL", "SST", "TYD" } }

\* Object.keys(classroomData)
Classrooms == Rooms

\* ClassroomsList given the stored document and the search: a room whose window
\* is taken by a reservation of any status, a denied one included, gets no card.
ListedGiven_AnyStatusBlocks(doc, q) ==
    { room \in Classrooms :
        \A i \in 1..Len(AllOf(doc)) :
            LET r == AllOf(doc)[i]
            IN  ~ /\ r.classroom = room
                  /\ r.date = q.date
                  /\ q.startTime < r.endTime
                  /\ r.startTime < q.endTime }

\* The cards ClassroomsList renders when the stored document is doc and the
\* last search was q: one per classroom; it is handed neither of the two.
ListedGiven(doc, q) == Classrooms

\* The cards ClassroomsList renders under 'Available Classrooms'.
ListedClassrooms == ListedGiven(store, filterStatus)

\* AvailabilitySearch.handleSubmit -> onSearch = displayAllClassrooms(query)
Search(q) ==
    /\ filterStatus' = q
    /\ locationStatus' = "Filtered view"
    /\ UNCHANGED roomsState
    /\ UNCHANGED adminVars
    /\ UNCHANGED idleVars

\* RoomCard.setStatus -> FacilityDashboard.updateRoom: setRoomsState
SetStatus(room, s) ==
    /\ roomsState[room] # s
    /\ roomsState' = [ roomsState EXCEPT ![room] = s ]
    /\ UNCHANGED << filterStatus, locationStatus >>
    /\ UNCHANGED adminVars
    /\ UNCHANGED idleVars

\* ------------------------------------------------------------ AuthProvider
\* What a token tells setupTokenRefresh: its expiry is more than five minutes
\* away, it is not, or the token cannot be decoded.
Tokens == { "fresh", "stale", "opaque" }

NoUser == [ role |-> Absent ]

Users == { [ role |-> r ] : r \in { "admin", "student" } }

NoErrors == [ email |-> "", password |-> "" ]

NoMessage == [ text |-> "", type |-> "" ]

\* The provider and the login page with no session and nothing in flight.
SignedOut ==
    /\ authToken = Absent
    /\ authHeader = Absent
    /\ currentUser = NoUser
    /\ loading = FALSE
    /\ refreshTimeout = 0
    /\ timers = { }
    /\ refreshing = [ b \in BOOLEAN |-> 0 ]
    /\ loggingOut = 0
    /\ profiling = FALSE
    /\ verifying = Absent
    /\ loginReqs = << >>
    /\ errors = NoErrors
    /\ isLoading = FALSE
    /\ message = NoMessage
    /\ redirect = Absent
    /\ location = "/login"
    /\ nCalls = 0

\* What the provider's functions read and write.
Ctx ==
    [ authToken |-> authToken, authHeader |-> authHeader, currentUser |-> currentUser,
      refreshTimeout |-> refreshTimeout, timers |-> timers, refreshing |-> refreshing,
      loggingOut |-> loggingOut ]

Put(c) ==
    /\ authToken' = c.authToken
    /\ authHeader' = c.authHeader
    /\ currentUser' = c.currentUser
    /\ refreshTimeout' = c.refreshTimeout
    /\ timers' = c.timers
    /\ refreshing' = c.refreshing
    /\ loggingOut' = c.loggingOut

\* clearTimeout that cancels nothing
ClearTimeout_Never(c) == c

\* clearTimeout(window.refreshTimeout)
ClearTimeout(c) == [ c EXCEPT !.timers = { t \in @ : t.id # c.refreshTimeout } ]

\* logout's finally block
Finally(c) ==
    ClearTimeout([ c EXCEPT !.authToken = Absent, !.authHeader = Absent,
                            !.currentUser = NoUser ])

\* logout() up to its await: sees is whether the currentUser of the caller's
\* closure is set; only then the backend is called and the rest waits for it.
Logout(c, sees) ==
    IF sees THEN [ c EXCEPT !.loggingOut = @ + 1 ] ELSE Finally(c)

\* refreshToken() up to its await
RefreshToken(c, sees) == [ c EXCEPT !.refreshing[sees] = @ + 1 ]

\* 5 * 60 * 1000 ms, the clock counted in minutes
FiveMinutes == 5

\* Whether atob and JSON.parse read a payload out of the token.
Decodable(token) == token \in { "fresh", "stale" }

\* payload.exp: a fresh token expires more than five minutes after every clock
\* value, a stale one within five minutes of the first.
Exp(token) ==
    CASE token = "fresh" -> MaxClock + FiveMinutes + 1
      [] token = "stale" -> StartClock + FiveMinutes
      [] OTHER           -> 0

\* refreshTime taken as the time to expiry itself
RefreshTime_AtExpiry(token, t) == Exp(token) - t

\* refreshTime = expiresIn - 5 minutes
RefreshTime(token, t) == (Exp(token) - t) - FiveMinutes

\* setupTokenRefresh()
SetupTokenRefresh(c, sees) ==
    LET cleared == IF c.refreshTimeout # 0 THEN ClearTimeout(c) ELSE c
    IN  IF c.authToken = Absent THEN cleared
        ELSE IF ~Decodable(c.authToken) THEN Logout(cleared, sees)
        ELSE IF RefreshTime(c.authToken, now) > 0
             THEN [ cleared EXCEPT
                      !.refreshTimeout = @ + 1,
                      !.timers = @ \cup { [ id |-> c.refreshTimeout + 1,
                                            sees |-> sees,
                                            due |-> now + RefreshTime(c.authToken, now) ] } ]
        ELSE RefreshToken(cleared, sees)

\* login(userData) of the context
Login(c, userData, sees) ==
    SetupTokenRefresh([ c EXCEPT !.currentUser = userData ], sees)

\* initializeAuth after GET /auth/profile answered; the effect's closure is the
\* first render's, whose currentUser is null.
ProfileAnswers(user) ==
    /\ profiling
    /\ profiling' = FALSE
    /\ Put(SetupTokenRefresh([ Ctx EXCEPT !.currentUser = user ], FALSE))
    /\ UNCHANGED << verifying, loginReqs, errors, isLoading, message, redirect,
                    location, nCalls >>
    /\ loading' = FALSE
    /\ UNCHANGED << adminVars, userVars, console, serviceVars, forgotVars >>

\* initializeAuth, catch
ProfileFails ==
    /\ profiling
    /\ profiling' = FALSE
    /\ Put(Logout(Ctx, FALSE))
    /\ UNCHANGED << verifying, loginReqs, errors, isLoading, message, redirect,
                    location, nCalls >>
    /\ loading' = FALSE
    /\ UNCHANGED << adminVars, userVars, console, serviceVars, forgotVars >>

\* The refresh timer fires: refreshToken()
TimerFires(t) ==
    /\ t \in timers
    /\ nCalls < MaxCalls
    /\ Put(RefreshToken([ Ctx EXCEPT !.timers = @ \ { t } ], t.sees))
    /\ nCalls' = nCalls + 1
    /\ UNCHANGED << profiling, verifying, loginReqs, errors, isLoading, message,
                    redirect, location >>
    /\ UNCHANGED loading
    /\ UNCHANGED << adminVars, userVars, console, serviceVars, forgotVars >>

\* refreshToken after POST /auth/refresh answered
RefreshAnswers(token, sees) ==
    /\ refreshing[sees] > 0
    /\ nCalls < MaxCalls
    /\ Put(SetupTokenRefresh([ Ctx EXCEPT !.refreshing[sees] = @ - 1,
                                          !.authToken = token,
                                          !.authHeader = token ], sees))
    /\ nCalls' = nCalls + 1
    /\ UNCHANGED << profiling, verifying, loginReqs, errors, isLoading, message,
                    redirect, location >>
    /\ UNCHANGED loading
    /\ UNCHANGED << adminVars, userVars, console, serviceVars, forgotVars >>

\* refreshToken, catch
RefreshFails(sees) ==
    /\ refreshing[sees] > 0
    /\ Put(Logout([ Ctx EXCEPT !.refreshing[sees] = @ - 1 ], sees))
    /\ UNCHANGED << profiling, verifying, loginReqs, errors, isLoading, message,
                    redirect, location, nCalls >>
    /\ UNCHANGED loading
    /\ UNCHANGED << adminVars, userVars, console, serviceVars, forgotVars >>

\* The Logout button of a dashboard that calls the context's logout.
ClickLogout ==
    /\ location \in { "/dashboard", "/admin/dashboard" }
    /\ nCalls < MaxCalls
    /\ Put(Logout(Ctx, currentUser # NoUser))
    /\ nCalls' = nCalls + 1
    /\ UNCHANGED << profiling, verifying, loginReqs, errors, isLoading, message,
                    redirect, location >>
    /\ UNCHANGED loading
    /\ UNCHANGED << adminVars, userVars, console, serviceVars, forgotVars >>

\* logout after POST /auth/logout answered or failed: the finally block
LogoutSettles ==
    /\ loggingOut > 0
    /\ Put(Finally([ Ctx EXCEPT !.loggingOut = @ - 1 ]))
    /\ UNCHANGED << profiling, verifying, loginReqs, errors, isLoading, message,
                    redirect, location, nCalls >>
    /\ UNCHANGED loading
    /\ UNCHANGED << adminVars, userVars, console, serviceVars, forgotVars >>

\* ------------------------------------------------------------ Login page
\* No page is rendered yet.
NotOpen == ""

\* The application is opened on /login: the mount effects of the page
\* (checkAuthStatus) and of the provider (initializeAuth), each up to its await.
AppOpens ==
    /\ location = NotOpen
    /\ location' = "/login"
    /\ verifying' = authToken
    /\ authHeader' = authToken
    /\ profiling' = (authToken # Absent)
    /\ UNCHANGED << authToken, currentUser, refreshTimeout, timers, refreshing, loggingOut,
                    loginReqs, errors, isLoading, message, redirect, nCalls >>
    /\ loading' = (authToken # Absent)
    /\ UNCHANGED << adminVars, userVars, console, serviceVars, forgotVars >>

\* The target of a navigation that does not look at the role.
DashboardOf_AnyRole(role) == "/dashboard"

\* role === 'admin' ? '/admin/dashboard' : '/dashboard'
DashboardOf(role) == IF role = "admin" THEN "/admin/dashboard" ELSE "/dashboard"

\* checkAuthStatus after GET /auth/verify answered
VerifyAnswers(isValid, role) ==
    /\ verifying # Absent
    /\ verifying' = Absent
    /\ location' = IF isValid THEN DashboardOf(role) ELSE location
    /\ UNCHANGED << authToken, authHeader, currentUser, refreshTimeout, timers, refreshing,
                    loggingOut, profiling, loginReqs, errors, isLoading, message,
                    redirect, nCalls >>
    /\ UNCHANGED loading
    /\ UNCHANGED << adminVars, userVars, console, serviceVars, forgotVars >>

\* checkAuthStatus, catch
VerifyFails ==
    /\ verifying # Absent
    /\ verifying' = Absent
    /\ authToken' = Absent
    /\ UNCHANGED << authHeader, currentUser, refreshTimeout, timers, refreshing,
                    loggingOut, profiling, loginReqs, errors, isLoading, message,
                    redirect, location, nCalls >>
    /\ UNCHANGED loading
    /\ UNCHANGED << adminVars, userVars, console, serviceVars, forgotVars >>

\* String.prototype.endsWith over a string cut in pieces
EndsWith(str, suffix) ==
    /\ Len(str) >= Len(suffix)
    /\ SubSeq(str, Len(str) - Len(suffix) + 1, Len(str)) = suffix

UniversitySuffix == << "@", "pau.edu.ng" >>

\* validateEmail with includes in the place of endsWith
ValidEmail_Includes(email) ==
    \E i \in 1..Len(email), j \in 1..Len(email) : SubSeq(email, i, j) = UniversitySuffix

\* validateEmail
ValidEmail(email) == EndsWith(email, UniversitySuffix)

\* What the user may type in the email field.
Emails ==
    { << "student", "@", "pau.edu.ng" >>,
      << "student", "@", "gmail.com" >>,
      << "student", "@", "pau.edu.ng", ".example.com" >>,
      << "student", "pau.edu.ng" >> }

Passwords == { "Student123", "wrong" }

\* handleSubmit up to its await; the submit button is disabled while loading.
handleSubmit(email, password) ==
    /\ location = "/login"
    /\ ~ isLoading
    /\ nCalls < MaxCalls
    /\ IF ValidEmail(email)
       THEN /\ errors' = NoErrors
            /\ isLoading' = TRUE
            /\ loginReqs' = Append(loginReqs, [ email |-> email, password |-> password,
                                                sees |-> currentUser # NoUser ])
       ELSE /\ errors' = [ NoErrors EXCEPT !.email =
                             "Please use your university email address (@pau.edu.ng)" ]
            /\ UNCHANGED << isLoading, loginReqs >>
    /\ message' = NoMessage
    /\ nCalls' = nCalls + 1
    /\ UNCHANGED << authToken, authHeader, currentUser, refreshTimeout, timers, refreshing,
                    loggingOut, profiling, verifying, redirect, location >>
    /\ UNCHANGED loading
    /\ UNCHANGED << adminVars, userVars, console, serviceVars, forgotVars >>

\* The context after localStorage.setItem('authToken', token); login(user)
Stored(c, token, user, sees) ==
    Login([ c EXCEPT !.authToken = token ], user, sees)

\* handleSubmit after POST /auth/login answered
LoginAnswers(token, user) ==
    /\ loginReqs # << >>
    /\ loginReqs' = Tail(loginReqs)
    /\ Put(Stored(Ctx, token, user, Head(loginReqs).sees))
    /\ message' = [ text |-> "Login successful! Redirecting to dashboard...",
                    type |-> "success" ]
    /\ redirect' = user.role
    /\ UNCHANGED << profiling, verifying, errors, isLoading, location, nCalls >>
    /\ UNCHANGED loading
    /\ UNCHANGED << adminVars, userVars, console, serviceVars, forgotVars >>

\* The statuses a failed login carries; 0 stands for no response at all.
Failures == { 401, 403, 404, 500, 0 }

\* The loading flag a catch block leaves that forgets setIsLoading(false).
LoadingAfterFailure_Stuck(flag) == flag

\* setIsLoading(false) in the catch block
LoadingAfterFailure(flag) == FALSE

\* handleSubmit, catch
LoginFails(status) ==
    /\ loginReqs # << >>
    /\ loginReqs' = Tail(loginReqs)
    /\ isLoading' = LoadingAfterFailure(isLoading)
    /\ errors' = IF status = 401
                 THEN [ NoErrors EXCEPT !.password = "Invalid credentials" ]
                 ELSE errors
    /\ message' =
          CASE status = 401 -> message
            [] status = 404 -> [ text |-> "Account not found. Please contact your administrator.",
                                 type |-> "error" ]
            [] status = 403 -> [ text |-> "Your account is not activated yet.", type |-> "error" ]
            [] status = 0   -> [ text |-> "Unable to connect to the server. Please check your connection.",
                                 type |-> "error" ]
            [] OTHER        -> [ text |-> "An error occurred during login. Please try again.",
                                 type |-> "error" ]
    /\ UNCHANGED << authToken, authHeader, currentUser, refreshTimeout, timers, refreshing,
                    loggingOut, profiling, verifying, redirect, location, nCalls >>
    /\ UNCHANGED loading
    /\ UNCHANGED << adminVars, userVars, console, serviceVars, forgotVars >>

\* The redirect timer (1.5 s) fires.
RedirectFires ==
    /\ redirect # Absent
    /\ location' = DashboardOf(redirect)
    /\ redirect' = Absent
    /\ UNCHANGED << authToken, authHeader, currentUser, refreshTimeout, timers, refreshing,
                    loggingOut, profiling, verifying, loginReqs, errors, isLoading,
                    message, nCalls >>
    /\ UNCHANGED loading
    /\ UNCHANGED << adminVars, userVars, console, serviceVars, forgotVars >>

\* The browser before the application is opened: the token an earlier session
\* left in localStorage, if any.
InitAuth ==
    /\ store = [ pending |-> << >>, approved |-> << >>, denied |-> << >> ]
    /\ activities = << >>
    /\ reservations = Loaded(store)
    /\ recentActivities = << >>
    /\ selectedReservation = NoReservation
    /\ showReviewModal = FALSE
    /\ showCreateModal = FALSE
    /\ showConfirmModal = FALSE
    /\ confirmAction = ""
    /\ confirmData = NoData
    /\ alertMessage = NoAlert
    /\ now = StartClock
    /\ nOps = 0
    /\ filterStatus = [ date |-> 0, startTime |-> 0, endTime |-> 0, location |-> Absent ]
    /\ locationStatus = "Showing current availability"
    /\ roomsState = [ r \in Rooms |-> "AVAILABLE" ]
    /\ console = << >>
    /\ authToken \in Tokens \cup { Absent }
    /\ authHeader = Absent
    /\ currentUser = NoUser
    /\ loading = TRUE
    /\ refreshTimeout = 0
    /\ timers = { }
    /\ refreshing = [ b \in BOOLEAN |-> 0 ]
    /\ loggingOut = 0
    /\ profiling = FALSE
    /\ verifying = Absent
    /\ loginReqs = << >>
    /\ errors = NoErrors
    /\ isLoading = FALSE
    /\ message = NoMessage
    /\ redirect = Absent
    /\ location = NotOpen
    /\ nCalls = 0
    /\ isDevMode = FALSE
    /\ lastLogin = [ email |-> "", password |-> "", answer |-> "",
                     result |-> [ kind |-> "", user |-> 0 ] ]
    /\ InterceptIdle
    /\ ForgotIdle

AuthNext ==
    \/ AppOpens
    \/ \E user \in Users : ProfileAnswers(user)
    \/ ProfileFails
    \/ \E t \in timers : TimerFires(t)
    \/ \E token \in Tokens, sees \in BOOLEAN : RefreshAnswers(token, sees)
    \/ \E sees \in BOOLEAN : RefreshFails(sees)
    \/ ClickLogout
    \/ LogoutSettles
    \/ \E isValid \in BOOLEAN, role \in { "admin", "student" } : VerifyAnswers(isValid, role)
    \/ VerifyFails
    \/ \E email \in Emails, password \in Passwords : handleSubmit(email, password)
    \/ \E token \in Tokens, user \in Users : LoginAnswers(token, user)
    \/ \E status \in Failures : LoginFails(status)
    \/ RedirectFires

SpecAuth == InitAuth /\ [][AuthNext]_vars

\* ------------------------------------------------------------ routes
Roles == { "admin", "facility", "student", "faculty", "normal_user" }

RouteUsers == { [ role |-> r ] : r \in Roles }

PublicPaths == { "/login", "/signup", "/forgot-password" }

ProtectedPaths == { "/dashboard", "/admin/dashboard", "/facility/dashboard" }

\* The URLs a visitor may open: the routes of App, '/', and one no route matches.
Paths == PublicPaths \cup ProtectedPaths \cup { "/", "/nowhere" }

\* What a route element renders.
Spinner == [ kind |-> "spinner", to |-> "" ]

Children == [ kind |-> "children", to |-> "" ]

Navigate(to) == [ kind |-> "redirect", to |-> to ]

\* getUserDashboardPath without its facility case
getUserDashboardPath_NoFacility(role) ==
    IF role = "admin" THEN "/admin/dashboard" ELSE "/dashboard"

\* getUserDashboardPath
getUserDashboardPath(role) ==
    CASE role = "admin"    -> "/admin/dashboard"
      [] role = "facility" -> "/facility/dashboard"
      [] OTHER             -> "/dashboard"

\* ProtectedRoute
ProtectedRoute(allowedRoles, ld, user) ==
    IF ld THEN Spinner
    ELSE IF user = NoUser THEN Navigate("/login")
    ELSE IF allowedRoles # { } /\ user.role \notin allowedRoles
         THEN Navigate(getUserDashboardPath(user.role))
    ELSE Children

\* PublicRoute
PublicRoute(ld, user) ==
    IF ld THEN Spinner
    ELSE IF user # NoUser THEN Navigate(getUserDashboardPath(user.role))
    ELSE Children

\* RootRedirect and NotFoundRedirect
RootRedirect(ld, user) ==
    IF ld THEN Spinner
    ELSE IF user # NoUser THEN Navigate(getUserDashboardPath(user.role))
    ELSE Navigate("/login")

\* allowedRoles of the protected routes of App
AllowedRoles(path) ==
    CASE path = "/dashboard"          -> { "student", "faculty" }
      [] path = "/admin/dashboard"    -> { "admin" }
      [] path = "/facility/dashboard" -> { "facility" }
      [] OTHER                        -> { }

\* <Routes>: the element of the route that matches path
Element(path, ld, user) ==
    CASE path \in PublicPaths    -> PublicRoute(ld, user)
      [] path \in ProtectedPaths -> ProtectedRoute(AllowedRoles(path), ld, user)
      [] OTHER                   -> RootRedirect(ld, user)

\* What the router shows now.
Rendered == Element(location, loading, currentUser)

\* The visitor opens a URL or follows a link.
GoTo(path) ==
    /\ location # NotOpen
    /\ location' = path
    /\ UNCHANGED << authToken, authHeader, currentUser, loading, refreshTimeout, timers,
                    refreshing, loggingOut, profiling, verifying, loginReqs, errors,
                    isLoading, message, redirect, nCalls >>
    /\ UNCHANGED << adminVars, userVars, console, serviceVars, forgotVars >>

\* <Navigate to=... replace />
Redirect ==
    /\ Rendered.kind = "redirect"
    /\ location' = Rendered.to
    /\ UNCHANGED << authToken, authHeader, currentUser, loading, refreshTimeout, timers,
                    refreshing, loggingOut, profiling, verifying, loginReqs, errors,
                    isLoading, message, redirect, nCalls >>
    /\ UNCHANGED << adminVars, userVars, console, serviceVars, forgotVars >>

\* AdminDashboard.handleLogout (Header onLogout)
handleLogout ==
    /\ location = "/admin/dashboard"
    /\ Rendered = Children
    /\ authToken' = Absent
    /\ location' = "/login"
    /\ UNCHANGED << authHeader, currentUser, loading, refreshTimeout, timers,
                    refreshing, loggingOut, profiling, verifying, loginReqs, errors,
                    isLoading, message, redirect, nCalls >>
    /\ UNCHANGED << adminVars, userVars, console, serviceVars, forgotVars >>

\* UserDashboard: Header onLogout={() => navigate('/login')}
onLogout ==
    /\ location = "/dashboard"
    /\ Rendered = Children
    /\ location' = "/login"
    /\ UNCHANGED << authToken, authHeader, currentUser, loading, refreshTimeout, timers,
                    refreshing, loggingOut, profiling, verifying, loginReqs, errors,
                    isLoading, message, redirect, nCalls >>
    /\ UNCHANGED << adminVars, userVars, console, serviceVars, forgotVars >>

\* FacilityDashboard: the Logout button calls the context's logout.
FacilityLogout ==
    /\ location = "/facility/dashboard"
    /\ Rendered = Children
    /\ nCalls < MaxCalls
    /\ Put(Logout(Ctx, currentUser # NoUser))
    /\ nCalls' = nCalls + 1
    /\ UNCHANGED << loading, profiling, verifying, loginReqs, errors, isLoading, message,
                    redirect, location >>
    /\ UNCHANGED << adminVars, userVars, console, serviceVars, forgotVars >>

\* The application opened at any URL, with or without a token from an earlier
\* session; initializeAuth has run up to its await.
InitRoutes ==
    /\ store = [ pending |-> << >>, approved |-> << >>, denied |-> << >> ]
    /\ activities = << >>
    /\ reservations = Loaded(store)
    /\ recentActivities = << >>
    /\ selectedReservation = NoReservation
    /\ showReviewModal = FALSE
    /\ showCreateModal = FALSE
    /\ showConfirmModal = FALSE
    /\ confirmAction = ""
    /\ confirmData = NoData
    /\ alertMessage = NoAlert
    /\ now = StartClock
    /\ nOps = 0
    /\ filterStatus = [ date |-> 0, startTime |-> 0, endTime |-> 0, location |-> Absent ]
    /\ locationStatus = "Showing current availability"
    /\ roomsState = [ r \in Rooms |-> "AVAILABLE" ]
    /\ console = << >>
    /\ authToken \in { "fresh", Absent }
    /\ authHeader = authToken
    /\ currentUser = NoUser
    /\ loading = (authToken # Absent)
    /\ refreshTimeout = 0
    /\ timers = { }
    /\ refreshing = [ b \in BOOLEAN |-> 0 ]
    /\ loggingOut = 0
    /\ profiling = (authToken # Absent)
    /\ verifying = Absent
    /\ loginReqs = << >>
    /\ errors = NoErrors
    /\ isLoading = FALSE
    /\ message = NoMessage
    /\ redirect = Absent
    /\ location \in Paths
    /\ nCalls = 0
    /\ isDevMode = FALSE
    /\ lastLogin = [ email |-> "", password |-> "", answer |-> "",
                     result |-> [ kind |-> "", user |-> 0 ] ]
    /\ InterceptIdle
    /\ ForgotIdle

\* The login form is shown.
LoginShown == location = "/login" /\ Rendered = Children

RoutesNext ==
    \/ \E path \in Paths : GoTo(path)
    \/ Redirect
    \/ \E user \in RouteUsers : ProfileAnswers(user)
    \/ ProfileFails
    \/ handleLogout
    \/ onLogout
    \/ FacilityLogout
    \/ LogoutSettles
    \/ \E email \in Emails, password \in Passwords : LoginShown /\ handleSubmit(email, password)
    \/ \E user \in RouteUsers : LoginAnswers("fresh", user)
    \/ \E status \in Failures : LoginFails(status)
    \/ RedirectFires

SpecRoutes == InitRoutes /\ [][RoutesNext]_vars

\* ------------------------------------------------------------ ForgotPassword
NoFieldErrors == [ email |-> "", resetToken |-> "", newPassword |-> "", confirmPassword |-> "" ]

Digits == { "0", "1", "2", "3", "4", "5", "6", "7", "8", "9" }

\* validateResetToken: /^\d{6}$/
validateResetToken(token) ==
    Len(token) = 6 /\ \A j \in 1..6 : token[j] \in Digits

\* The code the backend mailed.
MailedCode == << "1", "2", "3", "4", "5", "6" >>

\* What may be typed into the code input: the mailed code, another six digits,
\* five digits, seven digits, six characters with a letter.
Codes ==
    { MailedCode,
      << "6", "5", "4", "3", "2", "1" >>,
      << "1", "2", "3", "4", "5" >>,
      << "1", "2", "3", "4", "5", "6", "7" >>,
      << "1", "2", "3", "a", "5", "6" >> }

\* What the steps of the page leave alone.
forgotFrame == << authToken, authHeader, currentUser, loading, refreshTimeout, timers,
                  refreshing, loggingOut, profiling, verifying, loginReqs, redirect,
                  adminVars, userVars, console, serviceVars, countdown >>

\* The statuses a failed POST /auth/forgot-password carries; 0 is no response.
ResetRequestFailures == { 404, 429, 500, 0 }

\* The statuses a failed POST /auth/verify-reset-token carries; 0 is no response.
VerificationFailures == { 400, 404, 500, 0 }

ResetRequestError(status) ==
    CASE status = 404 -> "No account found with this email address."
      [] status = 429 -> "Too many reset requests. Please wait before trying again."
      [] status = 0   -> "Unable to connect to the server. Please check your connection."
      [] OTHER        -> "An error occurred. Please try again."

VerificationError(status) ==
    CASE status = 400 -> "Invalid or expired reset code. Please request a new one."
      [] status = 404 -> "Reset code not found. Please request a new password reset."
      [] status = 0   -> "Unable to connect to the server. Please check your connection."
      [] OTHER        -> "Verification failed. Please try again."

\* The submit button of the form shown is enabled.
Submittable(step) ==
    /\ location = "/forgot-password"
    /\ currentStep = step
    /\ ~isLoading

\* handleResetRequest up to its await
handleResetRequest(email) ==
    /\ Submittable("request")
    /\ nCalls < MaxCalls
    /\ message' = NoMessage
    /\ IF ValidEmail(email)
       THEN /\ errors' = NoFieldErrors
            /\ isLoading' = TRUE
            /\ requests' = Append(requests, [ kind |-> "forgot", code |-> << >> ])
       ELSE /\ errors' = [ NoFieldErrors EXCEPT
                             !.email = "Please use your university email address (@pau.edu.ng)" ]
            /\ UNCHANGED << isLoading, requests >>
    /\ nCalls' = nCalls + 1
    /\ UNCHANGED << currentStep, resetToken, stepTimers, location >>
    /\ UNCHANGED forgotFrame

\* handleResetRequest after POST /auth/forgot-password answered
ResetRequestAnswers ==
    /\ requests # << >>
    /\ Head(requests).kind = "forgot"
    /\ requests' = Tail(requests)
    /\ isLoading' = FALSE
    /\ message' = [ text |-> "Password reset code sent to your email. Please check your inbox.",
                    type |-> "success" ]
    /\ stepTimers' = Append(stepTimers, [ to |-> "verify", code |-> << >> ])
    /\ UNCHANGED << currentStep, resetToken, errors, location, nCalls >>
    /\ UNCHANGED forgotFrame

\* handleResetRequest, catch
ResetRequestFails(status) ==
    /\ requests # << >>
    /\ Head(requests).kind = "forgot"
    /\ requests' = Tail(requests)
    /\ isLoading' = FALSE
    /\ message' = [ text |-> ResetRequestError(status), type |-> "error" ]
    /\ UNCHANGED << currentStep, resetToken, stepTimers, errors, location, nCalls >>
    /\ UNCHANGED forgotFrame

\* handleInputChange for the code input
SetResetToken(code) ==
    /\ location = "/forgot-password"
    /\ currentStep = "verify"
    /\ resetToken # code
    /\ resetToken' = code
    /\ errors' = [ errors EXCEPT !.resetToken = "" ]
    /\ UNCHANGED << currentStep, stepTimers, requests, isLoading, message, location, nCalls >>
    /\ UNCHANGED forgotFrame

\* handleTokenVerification up to its await
handleTokenVerification ==
    /\ Submittable("verify")
    /\ nCalls < MaxCalls
    /\ message' = NoMessage
    /\ IF validateResetToken(resetToken)
       THEN /\ errors' = NoFieldErrors
            /\ isLoading' = TRUE
            /\ requests' = Append(requests, [ kind |-> "verify", code |-> resetToken ])
       ELSE /\ errors' = [ NoFieldErrors EXCEPT !.resetToken = "Reset code must be 6 digits" ]
            /\ UNCHANGED << isLoading, requests >>
    /\ nCalls' = nCalls + 1
    /\ UNCHANGED << currentStep, resetToken, stepTimers, location >>
    /\ UNCHANGED forgotFrame

\* handleTokenVerification after POST /auth/verify-reset-token answered: the
\* backend accepts the mailed code only.
VerificationAnswers ==
    /\ requests # << >>
    /\ Head(requests).kind = "verify"
    /\ Head(requests).code = MailedCode
    /\ requests' = Tail(requests)
    /\ message' = [ text |-> "Code verified successfully! You can now set your new password.",
                    type |-> "success" ]
    /\ stepTimers' = Append(stepTimers, [ to |-> "reset", code |-> Head(requests).code ])
    /\ UNCHANGED << currentStep, resetToken, isLoading, errors, location, nCalls >>
    /\ UNCHANGED forgotFrame

\* handleTokenVerification, catch
VerificationFails(status) ==
    /\ requests # << >>
    /\ Head(requests).kind = "verify"
    /\ requests' = Tail(requests)
    /\ isLoading' = FALSE
    /\ message' = [ text |-> VerificationError(status), type |-> "error" ]
    /\ UNCHANGED << currentStep, resetToken, stepTimers, errors, location, nCalls >>
    /\ UNCHANGED forgotFrame

\* s without its i-th element
RemoveAt(s, i) == SubSeq(s, 1, i - 1) \o SubSeq(s, i + 1, Len(s))

\* A delayed step change fires: setCurrentStep, setMessage
StepTimerFires(i) ==
    /\ location = "/forgot-password"
    /\ i \in 1..Len(stepTimers)
    /\ currentStep' = stepTimers[i].to
    /\ message' = NoMessage
    /\ stepTimers' = RemoveAt(stepTimers, i)
    /\ UNCHANGED << resetToken, requests, isLoading, errors, location, nCalls >>
    /\ UNCHANGED forgotFrame

\* handleRequestNewCode
handleRequestNewCode ==
    /\ location = "/forgot-password"
    /\ currentStep = "verify"
    /\ nCalls < MaxCalls
    /\ currentStep' = "request"
    /\ resetToken' = << >>
    /\ errors' = NoFieldErrors
    /\ message' = NoMessage
    /\ nCalls' = nCalls + 1
    /\ UNCHANGED << stepTimers, requests, isLoading, location >>
    /\ UNCHANGED forgotFrame

\* The page mounted for a visitor who is not signed in.
InitForgot ==
    /\ store = [ pending |-> << >>, approved |-> << >>, denied |-> << >> ]
    /\ activities = << >>
    /\ reservations = Loaded(store)
    /\ recentActivities = << >>
    /\ selectedReservation = NoReservation
    /\ showReviewModal = FALSE
    /\ showCreateModal = FALSE
    /\ showConfirmModal = FALSE
    /\ confirmAction = ""
    /\ confirmData = NoData
    /\ alertMessage = NoAlert
    /\ now = StartClock
    /\ nOps = 0
    /\ filterStatus = [ date |-> 0, startTime |-> 0, endTime |-> 0, location |-> Absent ]
    /\ locationStatus = "Showing current availability"
    /\ roomsState = [ r \in Rooms |-> "AVAILABLE" ]
    /\ console = << >>
    /\ authToken = Absent
    /\ authHeader = Absent
    /\ currentUser = NoUser
    /\ loading = FALSE
    /\ refreshTimeout = 0
    /\ timers = { }
    /\ refreshing = [ b \in BOOLEAN |-> 0 ]
    /\ loggingOut = 0
    /\ profiling = FALSE
    /\ verifying = Absent
    /\ loginReqs = << >>
    /\ errors = NoFieldErrors
    /\ isLoading = FALSE
    /\ message = NoMessage
    /\ redirect = Absent
    /\ location = "/forgot-password"
    /\ nCalls = 0
    /\ isDevMode = FALSE
    /\ lastLogin = [ email |-> "", password |-> "", answer |-> "",
                     result |-> [ kind |-> "", user |-> 0 ] ]
    /\ InterceptIdle
    /\ ForgotIdle

ForgotNext ==
    \/ \E email \in Emails : handleResetRequest(email)
    \/ ResetRequestAnswers
    \/ \E status \in ResetRequestFailures : ResetRequestFails(status)
    \/ \E code \in Codes : SetResetToken(code)
    \/ handleTokenVerification
    \/ VerificationAnswers
    \/ \E status \in VerificationFailures : VerificationFails(status)
    \/ \E i \in 1..Len(stepTimers) : StepTimerFires(i)
    \/ handleRequestNewCode

SpecForgot == InitForgot /\ [][ForgotNext]_vars

\* ------------------------------------------------------------ AuthService
DEFAULT_USERS ==
    { [ id |-> 1, email |-> "admin@pau.edu.ng", password |-> "Admin123", role |-> "admin" ],
      [ id |-> 2, email |-> "student@pau.edu.ng", password |-> "Student123", role |-> "student" ],
      [ id |-> 3, email |-> "jane.smith@pau.edu.ng", password |-> "Student456", role |-> "student" ],
      [ id |-> 4, email |-> "facility@pau.edu.ng", password |-> "Facility123", role |-> "facility" ] }

NoLogin == [ email |-> "", password |-> "", answer |-> "", result |-> [ kind |-> "", user |-> 0 ] ]

ServiceIdle ==
    /\ isDevMode = FALSE
    /\ lastLogin = NoLogin
    /\ InterceptIdle

\* What POST /auth/login may do: answer with a session, answer with a rejection,
\* or give no answer.
Answers == { "session", "rejected", "unreachable" }

\* authenticateWithDefaults: the id of the default user, 0 for null
authenticateWithDefaults(email, password) ==
    LET found == { u \in DEFAULT_USERS : u.email = email /\ u.password = password }
    IN  IF found = { } THEN 0 ELSE (CHOOSE u \in found : TRUE).id

\* What AuthService.login gives: the backend's session, a dev-mode session, or
\* the error 'Invalid credentials'.
LoginResult(email, password, answer) ==
    IF answer = "session" THEN [ kind |-> "backend", user |-> 0 ]
    ELSE IF authenticateWithDefaults(email, password) # 0
         THEN [ kind |-> "dev", user |-> authenticateWithDefaults(email, password) ]
         ELSE [ kind |-> "throws", user |-> 0 ]

ServiceEmails == { u.email : u \in DEFAULT_USERS } \cup { "other@pau.edu.ng" }

ServicePasswords == { u.password : u \in DEFAULT_USERS } \cup { "wrong" }

\* AuthService.login
ServiceLogin(email, password, answer) ==
    LET result == LoginResult(email, password, answer)
    IN  /\ isDevMode' = CASE result.kind = "backend" -> FALSE
                          [] result.kind = "dev"     -> TRUE
                          [] OTHER                   -> isDevMode
        /\ lastLogin' = [ email |-> email, password |-> password, answer |-> answer,
                          result |-> result ]
        /\ UNCHANGED << adminVars, userVars, console, authVars, interceptVars, forgotVars >>

ServiceNext ==
    \E email \in ServiceEmails, password \in ServicePasswords, answer \in Answers :
        ServiceLogin(email, password, answer)

\* ------------------------------------------------------------ interceptors
\* What the backend answers to a request: 200, or an error status; 0 stands for
\* no response at all.
Statuses == { 200, 401, 500, 0 }

\* What the response interceptor reads and writes.
Http ==
    [ handlers |-> handlers, wire |-> wire, refreshCalls |-> refreshCalls,
      retries |-> retries, logoutCalls |-> logoutCalls, outcome |-> outcome,
      authToken |-> authToken, authHeader |-> authHeader ]

PutHttp(h) ==
    /\ handlers' = h.handlers
    /\ wire' = h.wire
    /\ refreshCalls' = h.refreshCalls
    /\ retries' = h.retries
    /\ logoutCalls' = h.logoutCalls
    /\ outcome' = h.outcome
    /\ authToken' = h.authToken
    /\ authHeader' = h.authHeader

\* The waiting handlers but the innermost.
Outer(h) == SubSeq(h.handlers, 1, Len(h.handlers) - 1)

RECURSIVE Rejected(_)
\* The request on the wire is rejected: a handler that awaits its refresh
\* catches that, calls logoutCallback and rejects in turn; a handler that
\* returned its retry is rejected with it.
Rejected(h) ==
    IF h.handlers = << >> THEN [ h EXCEPT !.outcome = "rejected", !.wire = NoRequest ]
    ELSE Rejected([ h EXCEPT !.handlers = Outer(h),
                             !.logoutCalls = IF Last(h.handlers).phase = "refreshing"
                                             THEN @ + 1 ELSE @ ])

RECURSIVE Fulfilled(_, _)
\* The request on the wire is answered with success: a handler that returned its
\* retry is fulfilled with it; a handler that awaits its refresh stores the
\* token and returns axios(originalRequest).
Fulfilled(h, token) ==
    IF h.handlers = << >> THEN [ h EXCEPT !.outcome = "resolved", !.wire = NoRequest ]
    ELSE IF Last(h.handlers).phase = "retrying"
         THEN Fulfilled([ h EXCEPT !.handlers = Outer(h) ], token)
    ELSE [ h EXCEPT !.handlers = Append(Outer(h), [ cfg |-> Last(h.handlers).cfg,
                                                     phase |-> "retrying" ]),
                    !.wire = [ cfg |-> Last(h.handlers).cfg, retry |-> TRUE ],
                    !.retries = @ + 1,
                    !.authToken = token,
                    !.authHeader = token ]

\* The error handler of the response interceptor, up to its await
OnError(h, status) ==
    IF isDevMode THEN Rejected(h)
    ELSE IF status = 401 /\ ~h.wire.retry
         THEN [ h EXCEPT !.handlers = Append(@, [ cfg |-> h.wire.cfg, phase |-> "refreshing" ]),
                         !.wire = [ cfg |-> "refresh", retry |-> FALSE ],
                         !.refreshCalls = @ + 1 ]
    ELSE Rejected(h)

\* Some code of the application sends a request through axios.
SendRequest ==
    /\ wire = NoRequest
    /\ wire' = [ cfg |-> "original", retry |-> FALSE ]
    /\ handlers' = << >>
    /\ refreshCalls' = 0
    /\ retries' = 0
    /\ logoutCalls' = 0
    /\ outcome' = "pending"
    /\ UNCHANGED << isDevMode, lastLogin >>
    /\ UNCHANGED << adminVars, userVars, console, authVars, forgotVars >>

\* The backend answers the request on the wire.
BackendAnswers(status, token) ==
    /\ wire # NoRequest
    /\ (status = 401 /\ ~wire.retry /\ ~isDevMode) => Len(handlers) < MaxDepth
    /\ PutHttp(IF status = 200 THEN Fulfilled(Http, token) ELSE OnError(Http, status))
    /\ UNCHANGED << currentUser, loading, refreshTimeout, timers, refreshing, loggingOut,
                    profiling, verifying, loginReqs, errors, isLoading, message, redirect,
                    location, nCalls >>
    /\ UNCHANGED << isDevMode, lastLogin >>
    /\ UNCHANGED << adminVars, userVars, console, forgotVars >>

InterceptNext ==
    \/ SendRequest
    \/ \E status \in Statuses, token \in Tokens : BackendAnswers(status, token)
    \/ ServiceNext

\* ------------------------------------------------------------ specification
\* A stored reservation the administrator has already reviewed.
Reviewed(r, status) ==
    [ r EXCEPT !.status = status, !.reviewedBy = AdminId, !.reviewedAt = r.id ]

\* The documents the user dashboard may find: every seed pending, approved or denied.
UserDocs ==
    UNION { { [ pending  |-> SelectSeq(SeedSeq(n), LAMBDA r : st[r.id] = "pending"),
                approved |-> [ i \in 1..Len(SelectSeq(SeedSeq(n), LAMBDA r : st[r.id] = "approved")) |->
                                Reviewed(SelectSeq(SeedSeq(n), LAMBDA r : st[r.id] = "approved")[i], "approved") ],
                denied   |-> [ i \in 1..Len(SelectSeq(SeedSeq(n), LAMBDA r : st[r.id] = "denied")) |->
                                Reviewed(SelectSeq(SeedSeq(n), LAMBDA r : st[r.id] = "denied")[i], "denied") ] ] :
              st \in [ 1..n -> { "pending", "approved", "denied" } ] } : n \in 0..MaxPending }

Init ==
    /\ store \in InitialDocs
    /\ activities = << >>
    /\ reservations = Loaded(store)
    /\ recentActivities = << >>
    /\ selectedReservation = NoReservation
    /\ showReviewModal = FALSE
    /\ showCreateModal = FALSE
    /\ showConfirmModal = FALSE
    /\ confirmAction = ""
    /\ confirmData = NoData
    /\ alertMessage = NoAlert
    /\ now = StartClock
    /\ nOps = 0
    /\ filterStatus = NoQuery
    /\ locationStatus = "Showing current availability"
    /\ roomsState = [ r \in Rooms |-> "AVAILABLE" ]
    /\ console = << >>
    /\ SignedOut
    /\ ServiceIdle
    /\ ForgotIdle

Displayed == AllOf(reservations)

Next ==
    \/ \E i \in 1..Len(Displayed) : OnReview(Displayed[i])
    \/ CloseReview
    \/ \E reviewData \in ReviewInputs, t \in ClockReads : handleReviewSubmit(reviewData, t)
    \/ OnCreate
    \/ CloseCreate
    \/ \E draft \in Drafts, tId \in ClockReads : handleCreateSubmit(draft, tId)
    \/ \E i \in 1..Len(Displayed) : OnConfirmDelete(Displayed[i])
    \/ OnConfirmBulk
    \/ CloseConfirm
    \/ handleConfirmDelete
    \/ \E ts \in StampSeqs(Len(store.pending), now) : handleConfirmBulk(ts)
    \/ ClearAlert

Spec == Init /\ [][Next]_vars

\* The administrator's dashboard over a storage that may throw, within one
\* tick of the clock: every read of the time gives the same value.
StillStamps == [ i \in 1..Len(store.pending) |-> now ]

FaultsNext ==
    \/ \E i \in 1..Len(Displayed) : OnReview(Displayed[i])
    \/ CloseReview
    \/ \E reviewData \in ReviewInputs : handleReviewSubmit(reviewData, now)
    \/ \E reviewData \in ReviewInputs, f \in Throws : handleReviewSubmitThrows(reviewData, now, f)
    \/ OnCreate
    \/ CloseCreate
    \/ \E draft \in Drafts : handleCreateSubmit(draft, now)
    \/ \E draft \in Drafts, f \in Throws : handleCreateSubmitThrows(draft, now, f)
    \/ \E i \in 1..Len(Displayed) : OnConfirmDelete(Displayed[i])
    \/ OnConfirmBulk
    \/ CloseConfirm
    \/ handleConfirmDelete
    \/ \E f \in Throws : handleConfirmDeleteThrows(f)
    \/ handleConfirmBulk(StillStamps)
    \/ \E f \in Throws : handleConfirmBulkThrows(StillStamps, f)

SpecFaults == Init /\ [][FaultsNext]_vars

SpecService == Init /\ [][ServiceNext]_vars

SpecIntercept == Init /\ [][InterceptNext]_vars

UserNext ==
    \/ \E q \in Queries : Search(q)
    \/ \E room \in Rooms, s \in { "AVAILABLE", "UNAVAILABLE" } : SetStatus(room, s)

\* The user dashboard after its mount effect.
InitUser ==
    /\ store \in UserDocs
    /\ activities = << >>
    /\ reservations = Loaded(store)
    /\ recentActivities = << >>
    /\ selectedReservation = NoReservation
    /\ showReviewModal = FALSE
    /\ showCreateModal = FALSE
    /\ showConfirmModal = FALSE
    /\ confirmAction = ""
    /\ confirmData = NoData
    /\ alertMessage = NoAlert
    /\ now = StartClock
    /\ nOps = 0
    /\ filterStatus = NoQuery
    /\ locationStatus = "Showing current availability"
    /\ roomsState = [ r \in Rooms |-> "AVAILABLE" ]
    /\ console = << >>
    /\ SignedOut
    /\ ServiceIdle
    /\ ForgotIdle

SpecUser == InitUser /\ [][UserNext]_vars

\* ------------------------------------------------------------ the log alone
\* The log an earlier session left: n records, numbered by age, newest first.
PriorLog(n) == [ i \in 1..n |-> [ action |-> "created", reservationId |-> n - i + 1,
                                  count |-> 0, user |-> AdminId ] ]

\* The number the next record carries: one more than the newest stored.
NextNumber == IF activities = << >> THEN 1 ELSE activities[1].reservationId + 1

\* addRecentActivity, called by a handler whose reservation carries the next number
addRecentActivity(action) ==
    /\ nOps < MaxAppends
    /\ LET activity == Activity(action, NextNumber, 0)
       IN  /\ activities' = LogAfter(activities, activity)
           /\ recentActivities' = ShownAfter(activities, activity)
    /\ nOps' = nOps + 1
    /\ UNCHANGED << store, reservations, selectedReservation, showReviewModal,
                    showCreateModal, showConfirmModal, confirmAction, confirmData,
                    alertMessage, now >>
    /\ UNCHANGED userVars
    /\ UNCHANGED idleVars

\* loadRecentActivities, on mount
loadRecentActivities ==
    /\ recentActivities' = Slice(activities, LogShown)
    /\ UNCHANGED << store, activities, reservations, selectedReservation, showReviewModal,
                    showCreateModal, showConfirmModal, confirmAction, confirmData,
                    alertMessage, now, nOps >>
    /\ UNCHANGED userVars
    /\ UNCHANGED idleVars

InitLog ==
    /\ store = [ pending |-> << >>, approved |-> << >>, denied |-> << >> ]
    /\ activities \in { PriorLog(n) : n \in 0..MaxPrior }
    /\ reservations = Loaded(store)
    /\ recentActivities = << >>
    /\ selectedReservation = NoReservation
    /\ showReviewModal = FALSE
    /\ showCreateModal = FALSE
    /\ showConfirmModal = FALSE
    /\ confirmAction = ""
    /\ confirmData = NoData
    /\ alertMessage = NoAlert
    /\ now = StartClock
    /\ nOps = 0
    /\ filterStatus = NoQuery
    /\ locationStatus = "Showing current availability"
    /\ roomsState = [ r \in Rooms |-> "AVAILABLE" ]
    /\ console = << >>
    /\ SignedOut
    /\ ServiceIdle
    /\ ForgotIdle

LogNext ==
    \/ \E action \in { "created" } : addRecentActivity(action)
    \/ loadRecentActivities

SpecLog == InitLog /\ [][LogNext]_vars

\* ------------------------------------------------------------ steps
\* Which handler a step of Spec ran: each handler counts itself in nOps and
\* leaves its own alert.
ReviewStep == nOps' = nOps + 1 /\ alertMessage'.msg = "reviewed"
CreateStep == nOps' = nOps + 1 /\ alertMessage'.msg = "created"
DeleteStep == nOps' = nOps + 1 /\ alertMessage'.msg = "deleted"
BulkStep   == nOps' = nOps + 1 /\ alertMessage'.msg = "bulk_approved"

StoredIds(doc) == Ids(AllOf(doc))

\* The records of a list that carry the id, and those that do not, in order.
With(s, id) == SelectSeq(s, LAMBDA r : r.id = id)
Without(s, id) == SelectSeq(s, LAMBDA r : r.id # id)


\* ------------------------------------------------------------ claims

\* C1: in every reachable state every stored reservation id occurs in exactly
\* one of the pending, approved and denied lists, and exactly once there.
C1_OnePartitionOnce ==
    \A id \in StoredIds(store) : Count(AllOf(store), id) = 1

\* C2: a stored reservation stays stored across every step except the delete
\* action called with its id.
C2_OnlyDeleteRemoves ==
    [][ \A id \in StoredIds(store) :
            \/ id \in StoredIds(store')
            \/ DeleteStep /\ confirmData.id = id ]_vars

\* C3: a review submitted for a reservation whose id is not in the pending list
\* fails: it reports no success and leaves the three lists unchanged.
C3_ReviewOfNonPendingFails ==
    [][ (ReviewStep /\ selectedReservation.id \notin Ids(store.pending))
            => store' = store /\ alertMessage'.msg # "reviewed" ]_vars

\* C4: a reservation that is in approved or denied (and not pending) keeps its
\* lists and its records across review, bulk approve and create; only a
\* delete of its id changes them.
C4_ApprovedDeniedTerminal ==
    [][ \A id \in (Ids(store.approved) \cup Ids(store.denied)) \ Ids(store.pending) :
            \/ DeleteStep /\ confirmData.id = id
            \/ /\ id \notin Ids(store'.pending)
               /\ With(store'.approved, id) = With(store.approved, id)
               /\ With(store'.denied, id) = With(store.denied, id) ]_vars

\* C5: bulk approve appends every pending reservation to approved with status
\* 'approved', the same reviewer and one and the same review timestamp, empties
\* pending and leaves the former approved records and denied unchanged.
C5_BulkApproveOneStamp ==
    [][ BulkStep =>
            /\ store'.pending = << >>
            /\ store'.denied = store.denied
            /\ \E t \in StartClock..MaxClock :
                  store'.approved =
                      store.approved \o
                      [ i \in 1..Len(store.pending) |->
                          [ store.pending[i] EXCEPT !.status = "approved",
                                                    !.reviewedBy = AdminId,
                                                    !.reviewedAt = t ] ] ]_vars

\* C6: the count bulk approve reports, in its alert and in its activity record,
\* is the number of reservations the call moved from pending to approved.
C6_BulkCountIsMoved ==
    [][ BulkStep =>
            /\ alertMessage'.count = Len(store'.approved) - Len(store.approved)
            /\ activities'[1].count = Len(store'.approved) - Len(store.approved) ]_vars

\* C7: delete removes the records with the given id and no other; for an id
\* that is in no list it changes nothing and reports 'not found', not success.
C7_DeleteReportsNotFound ==
    [][ DeleteStep =>
            /\ store'.pending = Without(store.pending, confirmData.id)
            /\ store'.approved = Without(store.approved, confirmData.id)
            /\ store'.denied = Without(store.denied, confirmData.id)
            /\ confirmData.id \notin StoredIds(store)
                  => store' = store /\ alertMessage'.msg # "deleted" ]_vars

\* C8: the administrator's create appends one reservation with status
\* 'approved' to the approved list, whatever the draft carries, and leaves
\* pending and denied unchanged; no admin-created record is ever pending.
C8_AdminCreateIsApproved ==
    /\ [][ CreateStep =>
              /\ Len(store'.approved) = Len(store.approved) + 1
              /\ SubSeq(store'.approved, 1, Len(store.approved)) = store.approved
              /\ Last(store'.approved).status = "approved"
              /\ Last(store'.approved).isAdminCreated
              /\ store'.pending = store.pending
              /\ store'.denied = store.denied ]_vars
    /\ [](\A i \in 1..Len(store.pending) : ~store.pending[i].isAdminCreated)

\* C8 witness: a create whose draft carried status 'pending' and the window of
\* the pending seeds has just run while a seed was still pending.
C8_Witness ==
    /\ alertMessage.msg = "created"
    /\ store.approved # << >>
    /\ Last(store.approved).isAdminCreated
    /\ Last(store.approved).startTime = 9
    /\ Last(store.approved).status = "approved"
    /\ \E i \in 1..Len(store.pending) :
          /\ store.pending[i].classroom = Last(store.approved).classroom
          /\ store.pending[i].startTime = 9

\* C9: a create whose draft lacks the room, the date, the start or the end time
\* adds no reservation: no admin-created record with such a gap is stored.
C9_IncompleteDraftRejected ==
    \A i \in 1..Len(AllOf(store)) :
        LET r == AllOf(store)[i]
        IN  r.isAdminCreated =>
                r.classroom # Absent /\ r.date # 0 /\ r.startTime # 0 /\ r.endTime # 0

\* isAvailable as the claim states it: the room is AVAILABLE and no pending or
\* approved reservation of the room and date overlaps the half-open window.
IsAvailable(room, date, startTime, endTime, existing) ==
    /\ roomsState[room] = "AVAILABLE"
    /\ \A i \in 1..Len(existing) :
          LET r == existing[i]
          IN  ~ /\ r.classroom = room
                /\ r.date = date
                /\ r.status \in { "pending", "approved" }
                /\ startTime < r.endTime
                /\ r.startTime < endTime

\* C10: after an availability search for a well-formed window (start before
\* end) the classrooms offered as available are exactly those for which
\* isAvailable holds for the searched window.
C10_ListedIffAvailable ==
    (filterStatus # NoQuery /\ 0 < filterStatus.startTime
                            /\ filterStatus.startTime < filterStatus.endTime) =>
        \A room \in Rooms :
            room \in ListedClassrooms
                <=> IsAvailable(room, filterStatus.date, filterStatus.startTime,
                                filterStatus.endTime, AllOf(store))

\* The document with only the denied reservations whose ids are kept.
DropDenied(doc, keep) ==
    [ doc EXCEPT !.denied = SelectSeq(doc.denied, LAMBDA r : r.id \in keep) ]

C12_LogNewestFifty ==
    /\ Len(activities) <= LogCap
    /\ \A i \in 1..Len(activities) :
          activities[i].reservationId = activities[1].reservationId - i + 1
    /\ activities # << >> =>
          /\ activities[1].reservationId >= nOps
          /\ Len(activities) = IF activities[1].reservationId < LogCap
                               THEN activities[1].reservationId ELSE LogCap
    /\ (nOps > 0 \/ recentActivities # << >>) =>
          recentActivities = Slice(activities, LogShown)

\* C12 witness: 55 appends to an empty log have left the 50 newest, 55 down to 6.
C12_Witness ==
    /\ nOps = 55
    /\ Len(activities) = 50
    /\ activities[1].reservationId = 55
    /\ activities[50].reservationId = 6
    /\ Len(recentActivities) = 5

\* ------------------------------------------------------------ C13, C14
\* The step of a handler whose try block threw f.
Threw(f) == Len(console') = Len(console) + 1 /\ Last(console').error = f

Thrower == Last(console').where

\* C13: a failure while appending to the activity log never blocks, fails or
\* rolls back a review, an admin create, a delete or a bulk approve: the
\* reservation partitions are persisted with the mutation applied.
C13_LogFailureNeverBlocks ==
    [][ Threw("log") =>
          /\ Thrower = "review" => selectedReservation.id \notin Ids(store'.pending)
          /\ Thrower = "create" => Len(store'.approved) = Len(store.approved) + 1
          /\ Thrower = "delete" => store' = DeletedDoc(store, confirmData.id)
          /\ Thrower = "bulk_approve" =>
                /\ store'.pending = << >>
                /\ Len(store'.approved) = Len(store.approved) + Len(store.pending) ]_vars

\* C14: when the write of the reservation document fails, the mutation is all
\* or nothing: the persisted partitions and the in-memory partitions are as they
\* were before the operation, and the failure is reported.
C14_SaveFailureChangesNothing ==
    [][ Threw("save") =>
          /\ store' = store
          /\ reservations' = reservations
          /\ alertMessage'.msg \in { "Error processing reservation review",
                                     "Error creating reservation",
                                     "Error performing action" } ]_vars

\* A delete of a stored reservation has just failed on its write.
C14_Witness ==
    /\ console # << >>
    /\ Last(console) = [ where |-> "delete", error |-> "save" ]
    /\ Len(console) = nOps
    /\ showConfirmModal
    /\ confirmData.id \in StoredIds(store)
    /\ alertMessage.msg = "Error performing action"

\* ------------------------------------------------------------ C15
\* No session is left: no stored token, no Authorization header, no current
\* user, no refresh timer pending.
Cleared ==
    /\ authToken = Absent
    /\ authHeader = Absent
    /\ currentUser = NoUser
    /\ timers = { }

\* C15: once logout has completed, whether its backend call succeeded or
\* failed, no token is stored, the Authorization header is removed, currentUser
\* is null and no refresh timer is pending, and this stays so until a user is
\* set again (login, signup), whatever was in flight when logout was called.
C15_LogoutStaysCleared ==
    [][ /\ loggingOut' = loggingOut - 1 => Cleared'
        /\ (Cleared /\ currentUser' = NoUser) => Cleared' ]_vars

\* ------------------------------------------------------------ C16
\* The credentials of the last AuthService.login are those of a default user.
DefaultCredentials ==
    \E u \in DEFAULT_USERS : u.email = lastLogin.email /\ u.password = lastLogin.password

\* C16: the fallback to the default users is used only when the backend is
\* unreachable: AuthService.login gives a dev-mode session only if the request
\* got no answer and the credentials match a default user; when the backend
\* answers with a rejection, login fails and no session is created.
C16_FallbackOnlyWhenUnreachable ==
    /\ lastLogin.result.kind = "dev" =>
          lastLogin.answer = "unreachable" /\ DefaultCredentials /\ isDevMode
    /\ lastLogin.answer = "rejected" => lastLogin.result.kind = "throws"

\* ------------------------------------------------------------ C17 .. C20
\* C17: when the login page mounts with a stored token, an isValid answer of the
\* verification navigates to /admin/dashboard for role admin and to /dashboard
\* for any other role; a failed verification removes the token and navigates
\* nowhere; with no stored token no verification request is made.
C17_MountCheck ==
    [][ /\ AppOpens => (verifying' # Absent <=> authToken # Absent)
        /\ \A role \in { "admin", "student" } :
              /\ VerifyAnswers(TRUE, role) =>
                    location' = IF role = "admin" THEN "/admin/dashboard" ELSE "/dashboard"
              /\ VerifyAnswers(FALSE, role) => location' = location
        /\ VerifyFails => (authToken' = Absent /\ location' = location) ]_vars

\* The stored token was found valid for an administrator and the page left.
C17_Witness ==
    /\ location = "/admin/dashboard"
    /\ verifying = Absent
    /\ authToken # Absent
    /\ nCalls = 0

\* C18: a submit with an email that does not end in @pau.edu.ng issues no login
\* request, stores no token and shows the university-email error; an email that
\* ends in @pau.edu.ng causes exactly one login request with that email and
\* password.
C18_EmailGate ==
    [][ \A email \in Emails, password \in Passwords :
            handleSubmit(email, password) =>
                IF EndsWith(email, << "@", "pau.edu.ng" >>)
                THEN /\ Len(loginReqs') = Len(loginReqs) + 1
                     /\ Last(loginReqs').email = email
                     /\ Last(loginReqs').password = password
                ELSE /\ loginReqs' = loginReqs
                     /\ authToken' = authToken
                     /\ errors'.email = "Please use your university email address (@pau.edu.ng)" ]_vars

\* An address that holds @pau.edu.ng without ending in it was refused.
C18_Witness ==
    /\ errors.email # ""
    /\ loginReqs = << >>
    /\ ~ isLoading
    /\ nCalls > 0

\* C19: after a successful login response the response's token is stored under
\* authToken before login(user) runs, the context then holds that user as
\* currentUser, and after the redirect delay the page navigates to
\* /admin/dashboard for an admin and to /dashboard otherwise.
C19_LoginEstablishesSession ==
    [][ /\ \A token \in Tokens, user \in Users :
              LoginAnswers(token, user) =>
                  /\ authToken' = token
                  /\ currentUser' = user
                  /\ redirect' = user.role
        /\ RedirectFires =>
              location' = IF redirect = "admin" THEN "/admin/dashboard" ELSE "/dashboard" ]_vars

\* C20: a failed login request (401, 403, 404, another status, no response)
\* stores no token, leaves the context logged out, schedules no navigation,
\* resets the loading flag and shows an error: a field error for 401, a message
\* otherwise.
C20_FailedLoginLeavesNothing ==
    [][ \A status \in Failures :
            LoginFails(status) =>
                /\ authToken' = authToken
                /\ currentUser' = currentUser
                /\ redirect' = redirect
                /\ location' = location
                /\ isLoading' = FALSE
                /\ IF status = 401 THEN errors'.password # ""
                   ELSE message'.type = "error" /\ message'.text # "" ]_vars

\* A login was refused and the form can be submitted again.
C20_Witness ==
    /\ errors.password = "Invalid credentials"
    /\ ~ isLoading
    /\ loginReqs = << >>
    /\ authToken = Absent
    /\ currentUser = NoUser
    /\ redirect = Absent

\* C21: a ProtectedRoute renders its children only when loading has finished, a
\* user is signed in and allowedRoles is empty or holds the user's role; without
\* a user it redirects to /login, with a role that is not allowed it redirects to
\* the dashboard of that role (admin, facility, otherwise /dashboard); a
\* PublicRoute never renders its page to a signed-in user.
C21_RouteGuards ==
    /\ \A allowed \in SUBSET Roles :
         LET r == ProtectedRoute(allowed, loading, currentUser) IN
         /\ r = Children =>
              /\ ~loading
              /\ currentUser # NoUser
              /\ (allowed = { } \/ currentUser.role \in allowed)
         /\ (~loading /\ currentUser = NoUser) => r = Navigate("/login")
         /\ (~loading /\ currentUser # NoUser /\ allowed # { }
                /\ currentUser.role \notin allowed) =>
              r = Navigate(CASE currentUser.role = "admin"    -> "/admin/dashboard"
                             [] currentUser.role = "facility" -> "/facility/dashboard"
                             [] OTHER                         -> "/dashboard")
    /\ (currentUser # NoUser /\ location \in PublicPaths) => Rendered # Children

\* A facility user, loading finished, stands on the route of another role.
C21_Witness ==
    /\ ~loading
    /\ currentUser # NoUser
    /\ currentUser.role = "facility"
    /\ location = "/dashboard"
    /\ Rendered = Navigate("/facility/dashboard")

\* Following the redirects from path for a signed-in user, loading finished:
\* TRUE when a route renders its content within fuel redirects.
RECURSIVE Settles(_, _, _)
Settles(path, user, fuel) ==
    LET e == Element(path, FALSE, user) IN
    IF e = Children THEN TRUE
    ELSE IF fuel = 0 THEN FALSE
    ELSE Settles(e.to, user, fuel - 1)

\* C25: for a signed-in user of any role, once loading has finished, the
\* redirects from the current URL end at a route whose content is rendered.
C25_RedirectsSettle ==
    (location # NotOpen /\ ~loading /\ currentUser # NoUser) =>
        Settles(location, currentUser, MaxHops)

\* C26: the Logout button of the admin or user dashboard header ends the
\* session: after it no user is signed in, no token is stored and the login
\* page is shown.
C26_HeaderLogoutEndsSession ==
    [][(handleLogout \/ onLogout) =>
          /\ currentUser' = NoUser
          /\ authToken' = Absent
          /\ location' = "/login"
          /\ Element(location', loading', currentUser') = Children]_vars

\* ------------------------------------------------------------ C22
\* logout() was called in this step: with a user in the caller's closure the
\* backend call is on its way, otherwise the session is cleared at once.
LogoutBegun(sees) ==
    IF sees THEN loggingOut' = loggingOut + 1
    ELSE authToken' = Absent /\ authHeader' = Absent /\ currentUser' = NoUser

\* setupTokenRefresh ran in this step against token; answered is the number of
\* refresh requests of this closure that ended in the step.
AfterSetup(token, sees, answered) ==
    IF ~Decodable(token) THEN LogoutBegun(sees)
    ELSE IF Exp(token) - FiveMinutes > now
         THEN /\ \E t \in timers' \ timers : t.due = Exp(token) - FiveMinutes
              /\ refreshing'[sees] = refreshing[sees] - answered
         ELSE /\ timers' \subseteq timers
              /\ refreshing'[sees] = (refreshing[sees] - answered) + 1

C30_OneRefreshTimer ==
    /\ Cardinality(timers) <= 1
    /\ \A t \in timers : t.id = refreshTimeout

\* A timer scheduled after an earlier one is pending while a refresh request is
\* in flight.
C30_Witness ==
    /\ refreshTimeout >= 2
    /\ Cardinality(timers) = 1
    /\ refreshing[TRUE] + refreshing[FALSE] > 0

\* ------------------------------------------------------------ C28
\* No id is stored twice in doc.
UniqueIds(doc) == \A id \in StoredIds(doc) : Count(AllOf(doc), id) = 1

\* C28: an admin-create keeps the reservation ids unique across the pending,
\* approved and denied lists, and a delete by id removes at most one reservation.
C28_CreateKeepsIdsUnique ==
    [][ /\ (CreateStep /\ UniqueIds(store)) => UniqueIds(store')
        /\ (DeleteStep /\ UniqueIds(store)) =>
              Len(AllOf(store)) - Len(AllOf(store')) <= 1 ]_vars

\* ------------------------------------------------------------ C29
\* C29: an activity record is produced only once the change it names has been
\* written to the reservation document: in the step that logs 'deleted' the
\* document is written without the reservation, in the step that logs
\* 'bulk_approved' it is written with no pending reservation left, and in a step
\* that logs 'approved', 'denied' or 'created' it is written with the change.
C29_LoggedOnlyWhenSaved ==
    [][ activities' # activities =>
          LET a == Head(activities') IN
          /\ a.action = "deleted" => store' = DeletedDoc(store, a.reservationId)
          /\ a.action = "bulk_approved" => store'.pending = << >>
          /\ a.action \in { "approved", "denied", "created" } => store' # store ]_vars

\* ------------------------------------------------------------ C23
\* C23: the handling of one failed request makes at most one token refresh and
\* at most one retry, and calls the logout callback at most once.
C23_OneRefreshOneRetry ==
    /\ refreshCalls <= 1
    /\ retries <= 1
    /\ logoutCalls <= 1

\* ------------------------------------------------------------ C24, C27
\* C24: the step of the forgot-password page changes only forward, request to
\* verify to reset to success, reset being entered from verify with the code
\* the backend verified still in the input; or back to request by 'Request new
\* code', which clears the code.
C24_StepsOnlyForward ==
    [][ currentStep' # currentStep =>
          \/ currentStep = "request" /\ currentStep' = "verify"
          \/ /\ currentStep = "verify"
             /\ currentStep' = "reset"
             /\ resetToken' = MailedCode
          \/ currentStep = "reset" /\ currentStep' = "success"
          \/ /\ currentStep = "verify"
             /\ currentStep' = "request"
             /\ resetToken' = << >> ]_vars

\* C27: when the reset form is shown after the code was verified, and no request
\* is in flight, the loading flag is false, so the form can be submitted.
C27_ResetFormSubmittable ==
    (location = "/forgot-password" /\ currentStep = "reset" /\ requests = << >>) => ~isLoading

====
